---- MODULE Spec2Model ----
(***************************************************************************)
(* Model of main/logger.py: the level resolver get_level, the logger       *)
(* set-up load_base_loggers_config and the two decorators log and          *)
(* log_train.                                                              *)
(*                                                                         *)
(* The loggers of Python's logging module are process-wide objects keyed   *)
(* by name; the decorators are run by the request workers of the web       *)
(* application, each on behalf of one session.  A worker's decorated call  *)
(* is split at the points where another worker can run in between: the     *)
(* reads and writes of the shared logger and of the log directory.         *)
(*                                                                         *)
(* Strings that the code inspects (the name of the area series, the keys   *)
(* of predictions_parameters) are sequences of one-character strings, so   *)
(* that lower(), `in' and `+' are computed.  Labels of the area series     *)
(* are written as strings: "0" is the label 0, "a" the label 'a'.          *)
(***************************************************************************)
EXTENDS Integers, Sequences, FiniteSets, TLC

\* ------------------------------------------------------------------ bounds
\* decorated calls made in one run (each call gets the next call number)
MaxCalls == 2

Threads == {"w1", "w2"}
Sessions == {"s1", "s2"}

\* the dates of a run, str(datetime.date(datetime.today())), and their order
FirstDate == "2019-06-30"
Tomorrow == ("2019-06-30" :> "2019-07-01")

\* ------------------------------------------------------- logging severities
INFO == 20
ERROR == 40
NOTSET == 0
\* Python's None where a severity is expected (falsy, like 0)
None == -1

\* values of session['config.ini']['DEFECT_ATTRIBUTES']['logging_level'][0]
LevelNames == {"INFO", "ERROR", "DO NOT LOG", "DEBUG"}

\* `logging == 'DO NOT LOG'' compares the logging module with a string
LoggingModuleEquals(str) == FALSE

get_levelReturnsErrorByDefault(level) ==
    IF level = "INFO" THEN INFO ELSE ERROR

get_level(level) ==
    IF level = "INFO" THEN INFO
    ELSE IF level = "ERROR" THEN ERROR
    ELSE IF LoggingModuleEquals("DO NOT LOG") THEN None
    ELSE None

\* Python's truth value of a severity or None
Truthy(level) == level # None /\ level # 0

\* Logger.isEnabledFor(severity) of a logger whose level has been set
isEnabledFor(loggerLevel, severity) == severity >= loggerLevel

\* ------------------------------------------------------------------ strings
Upper == <<"A","B","C","D","E","F","G","H","I","J","K","L","M",
           "N","O","P","Q","R","S","T","U","V","W","X","Y","Z">>
LowerLetters == <<"a","b","c","d","e","f","g","h","i","j","k","l","m",
           "n","o","p","q","r","s","t","u","v","w","x","y","z">>

LowerChar(c) ==
    IF \E i \in DOMAIN Upper : Upper[i] = c
    THEN LowerLetters[CHOOSE i \in DOMAIN Upper : Upper[i] = c]
    ELSE c

\* str.lower()
Lower(s) == [i \in DOMAIN s |-> LowerChar(s[i])]

\* `sub in s' for strings
Contains(s, sub) ==
    \E i \in 0 .. (Len(s) - Len(sub)) :
        \A j \in 1 .. Len(sub) : s[i + j] = sub[j]

PRIORITY == <<"p","r","i","o","r","i","t","y">>
TTR == <<"t","t","r">>
EMPTY == <<>>
CLASSES_SUFFIX == <<"_","c","l","a","s","s","e","s">>

\* str(x) for the small naturals used as positional class indices
Digits == <<"0","1","2","3","4","5","6","7","8","9">>
StrOfNat(x) == Digits[x + 1]


\* ------------------------------------------------------------------- inputs
\* the decorated functions: f is wrapped by log, train by log_train
FuncNames == {"f", "train"}
Decorator(func) == IF func = "train" THEN "log_train" ELSE "log"

\* area series handed to a training function: its values and its name
AreaSeries == {
    [values |-> <<"0","1","0","1">>, name |-> <<"a","r","e","a">>],
    [values |-> <<"1","2">>,         name |-> <<"a","r","e","a">>],
    [values |-> <<"a","b","a">>,     name |-> PRIORITY],
    [values |-> <<"0","0">>,         name |-> TTR],
    [values |-> <<"1","2","3">>,     name |-> <<"T","T","R">>],
    [values |-> <<"1","2","3">>,     name |-> <<"t","t","r","_">> \o PRIORITY],
    [values |-> <<"0","1","2">>,     name |-> <<"P","r","i","o","r","i","t","y">>],
    [values |-> <<"1","2","3">>,     name |-> TTR],
    [values |-> <<"0","1","2">>,     name |-> <<"a","r","e","a">>] }

\* positional and keyword arguments of a call of f (keyword arguments by key)
LogInputs == { [args |-> <<"x", "y">>, kwargs |-> {"k"}] }

\* (description_series, area_series, model_path)
TrainInputs(series) == { [args |-> <<"descr", areas, "model">>, kwargs |-> {}] :
                         areas \in series }

\* the area series used where two workers run at once: a binary one and a
\* multi-class one
FewAreaSeries == {
    [values |-> <<"0","1","0","1">>, name |-> <<"a","r","e","a">>],
    [values |-> <<"1","2","3">>,     name |-> TTR] }

\* the level configurations used where two workers run at once
FewSessionLevels == {
    [s \in Sessions |-> IF s = "s1" THEN "INFO" ELSE "ERROR"],
    [s \in Sessions |-> IF s = "s1" THEN "INFO" ELSE "DO NOT LOG"] }

\* what the wrapped function does when invoked: return a value or raise
ReturnValues == {"v1"}
Exceptions == {"RuntimeError"}
Return(v) == [kind |-> "return", value |-> v]
Raise(e) == [kind |-> "raise", value |-> e]
FuncOutcomes == {Return(v) : v \in ReturnValues} \cup {Raise(e) : e \in Exceptions}
Pending == [kind |-> "pending", value |-> "None"]

\* session['predictions_parameters.ini']['predictions_parameters']
predictions_parameters ==
    (PRIORITY \o CLASSES_SUFFIX) :> <<"Low", "Medium", "High">>
    @@ (TTR \o CLASSES_SUFFIX) :> <<"0-7", "8-30", ">30">>

\* -------------------------------------------------------------------- state
VARIABLES
    sessionLevel,   \* session -> its configured logging level name
    today,          \* datetime.today()
    loggerLevel,    \* function name -> level of logging.getLogger(name)
    handlers,       \* function name -> logger.handlers, each the file it writes
    dirs,           \* dates d whose directory logs/<d>/ exists
    files,          \* log file -> the lines written to it
    nextCall,       \* number of the next decorated call
    pc,             \* worker -> its position in the decorated call
    frame           \* worker -> the locals of its decorated call

vars == <<sessionLevel, today, loggerLevel, handlers, dirs, files, nextCall, pc, frame>>

\* 'logs/' + str(date) + '/' + str(session_id) + '.log'
FileName(date, session) == <<date, session>>

NoReport == [kind |-> "none", areas_name |-> EMPTY, target_names |-> <<>>,
             scores |-> {}]

IdleFrame == [sess |-> "-", func |-> "-", args |-> <<>>, kwargs |-> {},
              call |-> 0, level |-> None, logger |-> "None", date |-> "-",
              made |-> {}, invocations |-> <<>>, outcome |-> Pending, cv |-> 0,
              target_names |-> <<>>, areas_name |-> EMPTY, classes_key |-> EMPTY,
              report |-> NoReport, result |-> Pending]

InitWith(levels) ==
    /\ sessionLevel \in levels
    /\ today = FirstDate
    /\ loggerLevel = [n \in FuncNames |-> NOTSET]
    /\ handlers = [n \in FuncNames |-> <<>>]
    /\ dirs = {}
    /\ files = <<>>
    /\ nextCall = 1
    /\ pc = [t \in Threads |-> "idle"]
    /\ frame = [t \in Threads |-> IdleFrame]

\* two workers on one day, a few configurations
Init == InitWith(FewSessionLevels)

\* one worker at a time, every configuration
InitSeq == InitWith([Sessions -> LevelNames])

\* ------------------------------------------------------------ the log sink
Count(hs, file) == Cardinality({i \in DOMAIN hs : hs[i] = file})

\* Logger.callHandlers: every handler of the logger writes the record
callHandlers(fs, hs, record) ==
    [file \in DOMAIN fs |-> fs[file] \o [i \in 1 .. Count(hs, file) |-> record]]

LoggerLogIgnoringLevel(fs, level, hs, record) == callHandlers(fs, hs, record)

\* Logger.info / Logger.error: the record is handled if the level enables it
LoggerLog(fs, level, hs, record) ==
    IF isEnabledFor(level, record.levelno) THEN callHandlers(fs, hs, record) ELSE fs

\* a log record; session and call say who issued it
Record(t, levelno, message) ==
    [levelno |-> levelno, name |-> frame[t].func, message |-> message,
     session |-> frame[t].sess, call |-> frame[t].call]

\* RotatingFileHandler(filename=...) opens its file, creating it when absent
OpenFile(fs, file) == IF file \in DOMAIN fs THEN fs ELSE fs @@ (file :> <<>>)

\* -------------------------------------------------- the calling environment
\* a request worker enters a decorated function on behalf of a session
BeginCall(t, series) ==
    /\ pc[t] = "idle"
    /\ nextCall <= MaxCalls
    /\ \E s \in Sessions, func \in FuncNames :
       \E in \in (IF func = "train" THEN TrainInputs(series) ELSE LogInputs) :
          frame' = [frame EXCEPT ![t] = [IdleFrame EXCEPT
                        !.sess = s, !.func = func, !.args = in.args,
                        !.kwargs = in.kwargs, !.call = nextCall]]
    /\ nextCall' = nextCall + 1
    /\ pc' = [pc EXCEPT ![t] = "get_level"]
    /\ UNCHANGED <<sessionLevel, today, loggerLevel, handlers, dirs, files>>

Begin(t) == BeginCall(t, FewAreaSeries)

BeginSeq(t) == BeginCall(t, AreaSeries)

\* the decorated call has returned or raised; the worker is free again
Finish(t) ==
    /\ pc[t] = "done"
    /\ pc' = [pc EXCEPT ![t] = "idle"]
    /\ frame' = [frame EXCEPT ![t] = IdleFrame]
    /\ UNCHANGED <<sessionLevel, today, loggerLevel, handlers, dirs, files, nextCall>>

\* midnight passes
NextDay ==
    /\ today \in DOMAIN Tomorrow
    /\ today' = Tomorrow[today]
    /\ UNCHANGED <<sessionLevel, loggerLevel, handlers, dirs, files, nextCall, pc, frame>>

\* ------------------------------------------------ load_base_loggers_config
\* lines 88-91: the logger of the function's name, the level of the session
ResolveLevel(t) ==
    /\ pc[t] = "get_level"
    /\ frame' = [frame EXCEPT ![t].level = get_level(sessionLevel[frame[t].sess])]
    /\ pc' = [pc EXCEPT ![t] = "setLevel"]
    /\ UNCHANGED <<sessionLevel, today, loggerLevel, handlers, dirs, files, nextCall>>

\* lines 92-93: no level, no logger
ReturnNoLogger(t) ==
    /\ pc[t] = "setLevel"
    /\ ~Truthy(frame[t].level)
    /\ frame' = [frame EXCEPT ![t].logger = "None"]
    /\ pc' = [pc EXCEPT ![t] = "wrapped"]
    /\ UNCHANGED <<sessionLevel, today, loggerLevel, handlers, dirs, files, nextCall>>

\* line 94
SetLevel(t) ==
    /\ pc[t] = "setLevel"
    /\ Truthy(frame[t].level)
    /\ loggerLevel' = [loggerLevel EXCEPT ![frame[t].func] = frame[t].level]
    /\ pc' = [pc EXCEPT ![t] = "handlers"]
    /\ UNCHANGED <<sessionLevel, today, handlers, dirs, files, nextCall, frame>>

\* line 95 with handlers present, line 108
ReuseHandlers(t) ==
    /\ pc[t] = "handlers"
    /\ Len(handlers[frame[t].func]) # 0
    /\ frame' = [frame EXCEPT ![t].logger = frame[t].func]
    /\ pc' = [pc EXCEPT ![t] = "wrapped"]
    /\ UNCHANGED <<sessionLevel, today, loggerLevel, handlers, dirs, files, nextCall>>

\* main.file_processor.is_file_exist of a directory
is_file_exist(date) == date \in dirs

\* line 95 with no handler, lines 96-97
CheckDirectory(t) ==
    /\ pc[t] = "handlers"
    /\ Len(handlers[frame[t].func]) = 0
    /\ frame' = [frame EXCEPT ![t].date = today]
    /\ pc' = [pc EXCEPT ![t] = IF is_file_exist(today) THEN "addHandler" ELSE "makedirs"]
    /\ UNCHANGED <<sessionLevel, today, loggerLevel, handlers, dirs, files, nextCall>>

\* line 98: os.makedirs of a directory that does not exist yet
MakeDirs(t) ==
    /\ pc[t] = "makedirs"
    /\ frame[t].date \notin dirs
    /\ dirs' = dirs \cup {frame[t].date}
    /\ frame' = [frame EXCEPT ![t].made = @ \cup {"directory"}]
    /\ pc' = [pc EXCEPT ![t] = "addHandler"]
    /\ UNCHANGED <<sessionLevel, today, loggerLevel, handlers, files, nextCall>>

\* line 98: os.makedirs of a directory another worker has made meanwhile
MakeDirsExists(t) ==
    /\ pc[t] = "makedirs"
    /\ frame[t].date \in dirs
    /\ frame' = [frame EXCEPT ![t].result = Raise("FileExistsError")]
    /\ pc' = [pc EXCEPT ![t] = "done"]
    /\ UNCHANGED <<sessionLevel, today, loggerLevel, handlers, dirs, files, nextCall>>

\* Logger.addHandler(hdlr) of a new handler object
addHandler(hs, file) == Append(hs, file)

\* lines 99-108: a rotating file handler on the session's file of the day
AddHandler(t) ==
    /\ pc[t] = "addHandler"
    /\ LET file == FileName(frame[t].date, frame[t].sess) IN
         /\ files' = OpenFile(files, file)
         /\ handlers' = [handlers EXCEPT ![frame[t].func] = addHandler(@, file)]
    /\ frame' = [frame EXCEPT ![t].made = @ \cup {"file_handler"},
                              ![t].logger = frame[t].func]
    /\ pc' = [pc EXCEPT ![t] = "wrapped"]
    /\ UNCHANGED <<sessionLevel, today, loggerLevel, dirs, nextCall>>

\* ------------------------------------------------------------ log.wrapped
CallWithArgsOnly(t) == [args |-> frame[t].args, kwargs |-> {}]

\* func(*args, **kwargs)
CallWithArgsAndKwargs(t) == [args |-> frame[t].args, kwargs |-> frame[t].kwargs]

\* `return func(...)', `return func_result': the caller gets the outcome itself
Propagate(outcome) == outcome

\* `raise e' of the exception caught
ReRaise(outcome) == Raise(outcome.value)

\* lines 119-121: logging is off, the function is called and its result returned
LogDisabled(t) ==
    /\ pc[t] = "wrapped" /\ Decorator(frame[t].func) = "log"
    /\ frame[t].logger = "None"
    /\ \E outcome \in FuncOutcomes :
         frame' = [frame EXCEPT
                     ![t].invocations = Append(@, CallWithArgsAndKwargs(t)),
                     ![t].outcome = outcome,
                     ![t].result = Propagate(outcome)]
    /\ pc' = [pc EXCEPT ![t] = "done"]
    /\ UNCHANGED <<sessionLevel, today, loggerLevel, handlers, dirs, files, nextCall>>

\* lines 122-125: the function is called inside the try
LogCall(t) ==
    /\ pc[t] = "wrapped" /\ Decorator(frame[t].func) = "log"
    /\ frame[t].logger # "None"
    /\ \E outcome \in FuncOutcomes :
         /\ frame' = [frame EXCEPT
                        ![t].invocations = Append(@, CallWithArgsAndKwargs(t)),
                        ![t].outcome = outcome]
         /\ pc' = [pc EXCEPT ![t] = IF outcome.kind = "raise" THEN "error" ELSE "info"]
    /\ UNCHANGED <<sessionLevel, today, loggerLevel, handlers, dirs, files, nextCall>>

\* lines 126-127: logger.error(traceback.format_exc()); raise e
LogError(t) ==
    /\ pc[t] = "error" /\ Decorator(frame[t].func) = "log"
    /\ files' = LoggerLog(files, loggerLevel[frame[t].logger], handlers[frame[t].logger],
                          Record(t, ERROR, <<"traceback", frame[t].outcome.value>>))
    /\ frame' = [frame EXCEPT ![t].result = ReRaise(frame[t].outcome)]
    /\ pc' = [pc EXCEPT ![t] = "done"]
    /\ UNCHANGED <<sessionLevel, today, loggerLevel, handlers, dirs, nextCall>>

\* lines 129-140: logger.info(function, arguments, duration, result); return func_result
LogInfo(t) ==
    /\ pc[t] = "info" /\ Decorator(frame[t].func) = "log"
    /\ files' = LoggerLog(files, loggerLevel[frame[t].logger], handlers[frame[t].logger],
                          Record(t, INFO, <<"function", frame[t].func, frame[t].args,
                                            frame[t].kwargs, frame[t].outcome.value>>))
    /\ frame' = [frame EXCEPT ![t].result = Propagate(frame[t].outcome)]
    /\ pc' = [pc EXCEPT ![t] = "done"]
    /\ UNCHANGED <<sessionLevel, today, loggerLevel, handlers, dirs, nextCall>>

\* ------------------------------------------------------ log_train.wrapped
\* func(*args)
CallWithArgs(t) == [args |-> frame[t].args, kwargs |-> {}]

\* a bare `return', or falling off the end of wrapped
ReturnNone == Return("None")

\* areas.unique().tolist()
Unique(values) == {values[i] : i \in DOMAIN values}

\* line 159: [str(x) for x in range(len(areas.unique().tolist()))]
TargetNames(areas) ==
    [x \in 1 .. Cardinality(Unique(areas.values)) |-> StrOfNat(x - 1)]

IsBinaryExactlyZeroOne(target_names) ==
    {target_names[i] : i \in DOMAIN target_names} = {"0", "1"}

\* line 169: not set(target_names).difference(set(['0', '1']))
IsBinary(target_names) ==
    {target_names[i] : i \in DOMAIN target_names} \ {"0", "1"} = {}

AreasNameTtrFirst(name) ==
    IF Contains(Lower(name), TTR) THEN TTR
    ELSE IF Contains(Lower(name), PRIORITY) THEN PRIORITY
    ELSE EMPTY

\* lines 187-191
AreasName(name) ==
    IF Contains(Lower(name), PRIORITY) THEN PRIORITY
    ELSE IF Contains(Lower(name), TTR) THEN TTR
    ELSE EMPTY

\* line 200: areas_name + '_classes'
ClassesKey(areas_name) == areas_name \o CLASSES_SUFFIX

\* lines 154-156: logging is off, func(*args) and a bare return
TrainDisabled(t) ==
    /\ pc[t] = "wrapped" /\ Decorator(frame[t].func) = "log_train"
    /\ frame[t].logger = "None"
    /\ \E outcome \in FuncOutcomes :
         frame' = [frame EXCEPT
                     ![t].invocations = Append(@, CallWithArgs(t)),
                     ![t].outcome = outcome,
                     ![t].result = IF outcome.kind = "raise" THEN Propagate(outcome)
                                   ELSE ReturnNone]
    /\ pc' = [pc EXCEPT ![t] = "done"]
    /\ UNCHANGED <<sessionLevel, today, loggerLevel, handlers, dirs, files, nextCall>>

\* the training function is called and its successful run is logged at once
TrainCallLoggingSuccess(t) ==
    /\ pc[t] = "wrapped" /\ Decorator(frame[t].func) = "log_train"
    /\ frame[t].logger # "None"
    /\ \E outcome \in FuncOutcomes :
         /\ frame' = [frame EXCEPT
                        ![t].target_names = TargetNames(frame[t].args[2]),
                        ![t].invocations = Append(@, CallWithArgs(t)),
                        ![t].outcome = outcome]
         /\ pc' = [pc EXCEPT ![t] = IF outcome.kind = "raise" THEN "error" ELSE "predict"]
         /\ files' = IF outcome.kind = "raise" THEN files
                     ELSE LoggerLog(files, loggerLevel[frame[t].logger],
                                    handlers[frame[t].logger],
                                    Record(t, INFO, <<"function", frame[t].func>>))
    /\ UNCHANGED <<sessionLevel, today, loggerLevel, handlers, dirs, nextCall>>

\* lines 158-164: the target names, then the training function inside the try
TrainCall(t) ==
    /\ pc[t] = "wrapped" /\ Decorator(frame[t].func) = "log_train"
    /\ frame[t].logger # "None"
    /\ \E outcome \in FuncOutcomes :
         /\ frame' = [frame EXCEPT
                        ![t].target_names = TargetNames(frame[t].args[2]),
                        ![t].invocations = Append(@, CallWithArgs(t)),
                        ![t].outcome = outcome]
         /\ pc' = [pc EXCEPT ![t] = IF outcome.kind = "raise" THEN "error" ELSE "predict"]
    /\ UNCHANGED <<sessionLevel, today, loggerLevel, handlers, dirs, files, nextCall>>

\* lines 165-166: logger.error(traceback.format_exc()); raise e
TrainError(t) ==
    /\ pc[t] = "error" /\ Decorator(frame[t].func) = "log_train"
    /\ files' = LoggerLog(files, loggerLevel[frame[t].logger], handlers[frame[t].logger],
                          Record(t, ERROR, <<"traceback", frame[t].outcome.value>>))
    /\ frame' = [frame EXCEPT ![t].result = ReRaise(frame[t].outcome)]
    /\ pc' = [pc EXCEPT ![t] = "done"]
    /\ UNCHANGED <<sessionLevel, today, loggerLevel, handlers, dirs, nextCall>>

\* lines 168, 33-55: the persisted model is loaded and cross-validated; an
\* unreadable model file or a failing cross-validation raises out of wrapped
GetPrediction(t) ==
    /\ pc[t] = "predict"
    /\ \/ /\ frame' = [frame EXCEPT ![t].cv = @ + 1]
          /\ pc' = [pc EXCEPT ![t] = "report"]
       \/ /\ frame' = [frame EXCEPT ![t].cv = @ + 1,
                                    ![t].result = Raise("FileNotFoundError")]
          /\ pc' = [pc EXCEPT ![t] = "done"]
    /\ UNCHANGED <<sessionLevel, today, loggerLevel, handlers, dirs, files, nextCall>>

\* lines 169-185: the binary report; a metric that cannot be computed raises
BinaryReport(t) ==
    /\ pc[t] = "report"
    /\ IsBinary(frame[t].target_names)
    /\ \/ /\ frame' = [frame EXCEPT ![t].report =
                 [kind |-> "binary", areas_name |-> frame[t].args[2].name,
                  target_names |-> frame[t].target_names,
                  scores |-> {"accuracy_score", "roc_auc_score", "matthews_corrcoef"}]]
          /\ pc' = [pc EXCEPT ![t] = "logReport"]
       \/ /\ frame' = [frame EXCEPT ![t].result = Raise("ValueError")]
          /\ pc' = [pc EXCEPT ![t] = "done"]
    /\ UNCHANGED <<sessionLevel, today, loggerLevel, handlers, dirs, files, nextCall>>

\* lines 186-200: the multi-class report with the configured class names; a
\* key absent from predictions_parameters or a failing report raises
MulticlassReport(t) ==
    /\ pc[t] = "report"
    /\ ~IsBinary(frame[t].target_names)
    /\ LET areas_name == AreasName(frame[t].args[2].name)
           key == ClassesKey(areas_name)
           chosen == [frame EXCEPT ![t].areas_name = areas_name, ![t].classes_key = key]
       IN \/ /\ key \in DOMAIN predictions_parameters
             /\ frame' = [chosen EXCEPT ![t].report =
                    [kind |-> "multiclass", areas_name |-> areas_name,
                     target_names |-> predictions_parameters[key], scores |-> {}]]
             /\ pc' = [pc EXCEPT ![t] = "logReport"]
          \/ /\ frame' = [chosen EXCEPT ![t].result =
                    IF key \in DOMAIN predictions_parameters
                    THEN Raise("ValueError") ELSE Raise("KeyError")]
             /\ pc' = [pc EXCEPT ![t] = "done"]
    /\ UNCHANGED <<sessionLevel, today, loggerLevel, handlers, dirs, files, nextCall>>

\* line 201: logger.info(result), and wrapped returns nothing
LogReport(t) ==
    /\ pc[t] = "logReport"
    /\ files' = LoggerLog(files, loggerLevel[frame[t].logger], handlers[frame[t].logger],
                          Record(t, INFO, <<"report", frame[t].report>>))
    /\ frame' = [frame EXCEPT ![t].result = ReturnNone]
    /\ pc' = [pc EXCEPT ![t] = "done"]
    /\ UNCHANGED <<sessionLevel, today, loggerLevel, handlers, dirs, nextCall>>

\* ------------------------------------------------------------ specification
Next ==
    \/ \E t \in Threads :
        \/ Begin(t)
        \/ ResolveLevel(t)
        \/ ReturnNoLogger(t)
        \/ SetLevel(t)
        \/ ReuseHandlers(t)
        \/ CheckDirectory(t)
        \/ MakeDirs(t)
        \/ MakeDirsExists(t)
        \/ AddHandler(t)
        \/ LogDisabled(t)
        \/ LogCall(t)
        \/ LogError(t)
        \/ LogInfo(t)
        \/ TrainDisabled(t)
        \/ TrainCall(t)
        \/ TrainError(t)
        \/ GetPrediction(t)
        \/ BinaryReport(t)
        \/ MulticlassReport(t)
        \/ LogReport(t)
        \/ Finish(t)

Spec == Init /\ [][Next]_vars

\* one worker runs the calls one after another
NextSeq ==
    \/ NextDay
    \/ BeginSeq("w1")
    \/ ResolveLevel("w1")
    \/ ReturnNoLogger("w1")
    \/ SetLevel("w1")
    \/ ReuseHandlers("w1")
    \/ CheckDirectory("w1")
    \/ MakeDirs("w1")
    \/ AddHandler("w1")
    \/ LogDisabled("w1")
    \/ LogCall("w1")
    \/ LogError("w1")
    \/ LogInfo("w1")
    \/ TrainDisabled("w1")
    \/ TrainCall("w1")
    \/ TrainError("w1")
    \/ GetPrediction("w1")
    \/ BinaryReport("w1")
    \/ MulticlassReport("w1")
    \/ LogReport("w1")
    \/ Finish("w1")

SpecSeq == InitSeq /\ [][NextSeq]_vars

\* ------------------------------------------------------------- properties
\* the places of the lines of the files fs
Places(fs) == UNION { {<<file, i>> : i \in DOMAIN fs[file]} : file \in DOMAIN fs }

\* how many lines of severity levelno call number c has in the files fs
LinesOf(fs, c, levelno) ==
    Cardinality({p \in Places(fs) :
        fs[p[1]][p[2]].call = c /\ fs[p[1]][p[2]].levelno = levelno})

LinesOfCall(fs, c) == LinesOf(fs, c, INFO) + LinesOf(fs, c, ERROR)

Enabled(t) == Truthy(frame[t].level)
Done(t, decorator) == pc[t] = "done" /\ Decorator(frame[t].func) = decorator
SharedState == <<sessionLevel, today, loggerLevel, handlers, dirs, files>>

C2_LinesInOwnSessionFile ==
    \A p \in Places(files) : files[p[1]][p[2]].session = p[1][2]

\* C3 as stated: the report built after a successful training call is the
\* binary one if and only if the distinct labels of the area series are
\* exactly 0 and 1.
C3_BinaryIffLabelsZeroOne ==
    \A t \in Threads :
        frame[t].report.kind # "none"
        => (frame[t].report.kind = "binary"
            <=> Unique(frame[t].args[2].values) = {"0", "1"})

\* C3 as amended: the report built is the binary one if and only if the area
\* series has at most two distinct labels, whatever the labels are, and the
\* multi-class one otherwise.
C3_BinaryIffAtMostTwoLabels ==
    \A t \in Threads :
        frame[t].report.kind # "none"
        => /\ frame[t].report.kind \in {"binary", "multiclass"}
           /\ frame[t].report.kind = "binary"
                <=> Cardinality(Unique(frame[t].args[2].values)) <= 2
           /\ frame[t].report.kind = "binary"
                => frame[t].report.scores =
                     {"accuracy_score", "roc_auc_score", "matthews_corrcoef"}

C3_Witness ==
    \E t \in Threads :
        /\ frame[t].report.kind = "binary"
        /\ Unique(frame[t].args[2].values) = {"1", "2"}
        /\ frame[t].result = ReturnNone

\* the multi-class branch of a training call has been entered
MulticlassTaken(t) == frame[t].classes_key # EMPTY

\* C4 as stated: a call of a function decorated by log that runs with logging
\* on and whose function raises has exactly one error line and no info line
\* in the log files and raises the function's exception.
C4_OneErrorLineAndReraise ==
    \A t \in Threads :
        (Done(t, "log") /\ Enabled(t) /\ frame[t].outcome.kind = "raise")
        => /\ LinesOf(files, frame[t].call, ERROR) = 1
           /\ LinesOf(files, frame[t].call, INFO) = 0
           /\ frame[t].result = Raise(frame[t].outcome.value)

\* C5: a call of a function decorated by log that runs with logging off has
\* invoked the function once, with the positional and keyword arguments
\* given, ends as the function ended, has no line in the log files and has
\* made no directory and no file handler.
C5_DisabledIsPassThrough ==
    \A t \in Threads :
        (Done(t, "log") /\ ~Enabled(t))
        => /\ frame[t].invocations =
                <<[args |-> frame[t].args, kwargs |-> frame[t].kwargs]>>
           /\ frame[t].outcome \in FuncOutcomes
           /\ frame[t].result = frame[t].outcome
           /\ LinesOfCall(files, frame[t].call) = 0
           /\ frame[t].made = {}

C5_Witness ==
    \E t \in Threads :
        /\ Done(t, "log") /\ ~Enabled(t)
        /\ frame[t].kwargs = {"k"}
        /\ frame[t].result = Return("v1")
        /\ \E file \in DOMAIN files : Len(files[file]) > 0

\* C6 as stated, for the calls that got their logger: a call of a function
\* decorated by log_train that runs with logging on has invoked the function
\* exactly once, and never cross-validates before that; if the function
\* raised, the call has exactly one error line, raises the same exception,
\* and has neither cross-validated nor built or logged a report.
C6_TrainFailureOneErrorLine ==
    \A t \in Threads :
        /\ (Done(t, "log_train") /\ Enabled(t) /\ frame[t].logger # "None")
           => Len(frame[t].invocations) = 1
        /\ (Decorator(frame[t].func) = "log_train" /\ frame[t].cv > 0)
           => Len(frame[t].invocations) = 1
        /\ (Done(t, "log_train") /\ Enabled(t) /\ frame[t].outcome.kind = "raise")
           => /\ LinesOf(files, frame[t].call, ERROR) = 1
              /\ frame[t].result = Raise(frame[t].outcome.value)
              /\ frame[t].cv = 0
              /\ frame[t].report = NoReport
              /\ LinesOf(files, frame[t].call, INFO) = 0

\* the severity the level name stands for
SeverityOfName(name) ==
    CASE name = "INFO" -> 20
      [] name = "ERROR" -> 40
      [] OTHER -> None

\* C7: resolving a level name gives the info severity for "INFO", the error
\* severity for "ERROR" and the do-not-log value for every other name, the
\* same each time, and leaves the loggers, the directories and the files as
\* they were.
C7_LevelResolved ==
    [][\A t \in Threads :
        (pc[t] = "get_level" /\ pc'[t] # "get_level")
        => /\ frame'[t].level = SeverityOfName(sessionLevel[frame[t].sess])
           /\ sessionLevel[frame[t].sess] \in {"INFO", "ERROR"}
                <=> Truthy(frame'[t].level)
           /\ SharedState' = SharedState]_vars

C7_Witness ==
    \E t \in Threads :
        /\ pc[t] = "setLevel"
        /\ sessionLevel[frame[t].sess] = "DEBUG"
        /\ frame[t].level = None
        /\ \E s \in Sessions : sessionLevel[s] = "DO NOT LOG"

\* C8 as stated: in the multi-class branch a series name containing "ttr"
\* selects the area name "ttr" and the key "ttr_classes", a name containing
\* "priority" selects "priority" and "priority_classes", and a name
\* containing neither selects the empty area name and the key "_classes".
C8_AreaNameBySubstring ==
    \A t \in Threads :
        MulticlassTaken(t)
        => LET name == frame[t].args[2].name IN
           /\ Contains(name, TTR)
                => /\ frame[t].areas_name = TTR
                   /\ frame[t].classes_key = TTR \o CLASSES_SUFFIX
           /\ Contains(name, PRIORITY)
                => /\ frame[t].areas_name = PRIORITY
                   /\ frame[t].classes_key = PRIORITY \o CLASSES_SUFFIX
           /\ (~Contains(name, TTR) /\ ~Contains(name, PRIORITY))
                => /\ frame[t].areas_name = EMPTY
                   /\ frame[t].classes_key = CLASSES_SUFFIX

\* C8 as amended: the substrings are looked for in the lower-cased series
\* name and "priority" is looked for first: a name containing "priority" in
\* any case selects "priority"; a name containing "ttr" in any case and not
\* "priority" selects "ttr"; a name containing neither selects the empty area
\* name; the key read is the area name followed by "_classes", and a report
\* that gets built carries the class names configured under that key.
C8_AreaNameLowerCasedPriorityFirst ==
    \A t \in Threads :
        MulticlassTaken(t)
        => LET name == Lower(frame[t].args[2].name) IN
           /\ Contains(name, PRIORITY) => frame[t].areas_name = PRIORITY
           /\ (Contains(name, TTR) /\ ~Contains(name, PRIORITY))
                => frame[t].areas_name = TTR
           /\ (~Contains(name, TTR) /\ ~Contains(name, PRIORITY))
                => frame[t].areas_name = EMPTY
           /\ frame[t].classes_key = frame[t].areas_name \o CLASSES_SUFFIX
           /\ frame[t].report.kind # "none"
                => /\ frame[t].report.kind = "multiclass"
                   /\ frame[t].report.target_names =
                        predictions_parameters[frame[t].classes_key]

C8_Witness ==
    \E t \in Threads :
        /\ MulticlassTaken(t)
        /\ Unique(frame[t].args[2].values) = {"1", "2", "3"}
        /\ Contains(frame[t].args[2].name, TTR)
        /\ frame[t].areas_name = PRIORITY
        /\ frame[t].report.target_names = <<"Low", "Medium", "High">>

\* the training function returned and the call did not return
EvaluationRaised(t) ==
    /\ Done(t, "log_train") /\ Enabled(t)
    /\ frame[t].outcome.kind = "return"
    /\ frame[t].result # ReturnNone

\* C9 as stated: when the training function returned and the evaluation
\* raised, the call raises the evaluation's exception and a line of this call
\* is in the log files.
C9_LoggedBeforeEvaluationFailure ==
    \A t \in Threads :
        EvaluationRaised(t)
        => /\ frame[t].result.kind = "raise"
           /\ LinesOfCall(files, frame[t].call) >= 1

\* C9 as amended: when the training function returned and the evaluation
\* raised, the call raises the evaluation's exception and no line of this
\* call is in the log files: the successful training run is not logged.
C9_NothingLoggedOnEvaluationFailure ==
    \A t \in Threads :
        EvaluationRaised(t)
        => /\ frame[t].result \in
                {Raise("FileNotFoundError"), Raise("ValueError"), Raise("KeyError")}
           /\ frame[t].cv = 1
           /\ LinesOfCall(files, frame[t].call) = 0

C9_Witness ==
    \E t \in Threads :
        /\ EvaluationRaised(t)
        /\ frame[t].result = Raise("FileNotFoundError")
        /\ handlers["train"] # <<>>

\* C10 as stated: the logger of a function has at most one handler, and no
\* record of a call is written twice.
C10_SingleHandler ==
    /\ \A n \in FuncNames : Len(handlers[n]) <= 1
    /\ \A t \in Threads :
         /\ LinesOf(files, frame[t].call, INFO) <= 1
         /\ LinesOf(files, frame[t].call, ERROR) <= 1

====
